---- MODULE Spec2Model ----
(***************************************************************************)
(* txyoga: REST resources over a backing collection.                       *)
(*                                                                         *)
(* The model follows src/txyoga/resource.py, serializers.py and errors.py. *)
(* One request is handled per step: the step runs the whole route          *)
(* (getChild and the render of the resource it returns, or render_GET /    *)
(* render_POST of the collection resource) and records the request, the    *)
(* response, the collection before the request and the backing operations  *)
(* the handler invoked.                                                    *)
(*                                                                         *)
(* The backing Collection/Element (txyoga.base) and the reportErrors       *)
(* decorator are used by the sources but are not part of them; they are    *)
(* modelled from the specification (sections 3, 4.3, 4.4, 7).              *)
(***************************************************************************)
EXTENDS Integers, Sequences, FiniteSets, TLC

VARIABLES
    elements,   \* the backing collection: ordered list of elements
    request,    \* the request handled last
    response,   \* the response it got
    before,     \* the collection as it was when that request arrived
    calls,      \* backing operations invoked while handling it, in order
    links       \* the call of _getPaginationURLs it made, if any

vars == <<elements, request, response, before, calls, links>>

----------------------------------------------------------------------------
(* Bounds of the model.                                                    *)

MaxCount == 2          \* a request is served while the collection stays within MaxCount
pageSize == 2          \* ICollection.pageSize of the modelled collection
maxPageSize == 3       \* ICollection.maxPageSize of the modelled collection

Identifiers == {"a", "b"}
Values == {"x", "y"}

----------------------------------------------------------------------------
(* twisted.web.http status codes used by the sources.                      *)

CREATED == 201
NO_CONTENT == 204
BAD_REQUEST == 400
FORBIDDEN == 403
NOT_FOUND == 404
NOT_ACCEPTABLE == 406
UNSUPPORTED_MEDIA_TYPE == 415

\* Python None (a header that is absent, a link that is not produced)
None == [none |-> TRUE]
\* a header that is present, with its text
Header(v) == [value |-> v]
\* an optional argument that is given
Given(v) == [value |-> v]
\* a Python dict with no entries
EmptyDict == [k \in {} |-> ""]

----------------------------------------------------------------------------
(* errors.py                                                               *)

SerializableError(kind, responseCode, message, details) ==
    [kind |-> kind, responseCode |-> responseCode,
     message |-> message, details |-> details]

UnsupportedContentTypeError(supportedContentTypes, providedContentType) ==
    SerializableError("UnsupportedContentTypeError", UNSUPPORTED_MEDIA_TYPE,
        "no acceptable decoder available for given content type",
        [supportedContentTypes |-> supportedContentTypes,
         providedContentType |-> providedContentType])

MissingContentType(supportedContentTypes) ==
    SerializableError("MissingContentType", UNSUPPORTED_MEDIA_TYPE,
        "request didn't specify a content type",
        [supportedContentTypes |-> supportedContentTypes])

UnacceptableRequestError(supportedContentTypes, acceptedContentTypes) ==
    SerializableError("UnacceptableRequestError", NOT_ACCEPTABLE,
        "no acceptable encoder available",
        [supportedContentTypes |-> supportedContentTypes,
         acceptedContentTypes |-> acceptedContentTypes])

PaginationError(message) ==
    SerializableError("PaginationError", BAD_REQUEST, message, EmptyDict)

\* MissingResourceError without its responseCode line: the base class's code
MissingResourceError_baseCode(message) ==
    SerializableError("MissingResourceError", BAD_REQUEST, message, EmptyDict)

MissingResourceError(message) ==
    SerializableError("MissingResourceError", NOT_FOUND, message, EmptyDict)

AttributeValueUpdateError(attribute, newValue, currentValue) ==
    SerializableError("AttributeValueUpdateError", FORBIDDEN,
        "attribute update not allowed and provided value differs from existing value, update aborted",
        [attribute |-> attribute, newValue |-> newValue,
         currentValue |-> currentValue])

\* repr() of a str
repr(s) == "'" \o s \o "'"

IdentifierError(expected, actual) ==
    SerializableError("IdentifierError", FORBIDDEN,
        "new element did not have specified identifying attribute",
        [actualIdentifyingAttribute |-> repr(actual),
         expectedIdentifyingAttribute |-> repr(expected)])

\* The names the errors module defines; looking up any other name on the
\* module raises AttributeError.
errorsModule == {"SerializableError", "UnsupportedContentTypeError",
                 "MissingContentType", "UnacceptableRequestError",
                 "PaginationError", "MissingResourceError", "UNSPECIFIED",
                 "AttributeValueUpdateError", "IdentifierError"}

----------------------------------------------------------------------------
(* Outcomes of a call: a returned value, a raised typed error, or a raised *)
(* exception of another class.                                             *)

Return(v) == [outcome |-> "return", value |-> v]
Raise(e) == [outcome |-> "raise", error |-> e]
RaiseOther(cls) == [outcome |-> "exception", class |-> cls]

\* raise errors.<name>(...): the attribute lookup comes first.
RaiseFrom(name, e) ==
    IF name \in errorsModule THEN Raise(e) ELSE RaiseOther("AttributeError")

----------------------------------------------------------------------------
(* serializers.py                                                          *)

\* @forContentType("application/json") def jsonDecode / jsonEncode
jsonDecode == [name |-> "jsonDecode", contentType |-> "application/json"]
jsonEncode == [name |-> "jsonEncode", contentType |-> "application/json"]

\* _RESTResourceJSONEncoder.default: a serializable error is written as
\* {"errorMessage": ..., "errorDetails": ...}
_RESTResourceJSONEncoder(obj) ==
    [errorMessage |-> obj.message, errorDetails |-> obj.details]

\* Applying an encoder to an object: the JSON text of the object.
Encode(encoder, obj) == [encodedBy |-> encoder.name, json |-> obj]
\* Applying a decoder to request.content: the object the JSON text holds.
Decode(decoder, content) == content.json

\* EncodingResource class attributes
defaultEncoder == jsonEncode
encoders == <<jsonEncode>>
decoders == <<jsonDecode>>

_getEncoderTypes == [i \in 1..Len(encoders) |-> encoders[i].contentType]
_getDecoderTypes == [i \in 1..Len(decoders) |-> decoders[i].contentType]

\* str.lower() on the content types the model sends
lower(s) ==
    CASE s = "Application/JSON" -> "application/json"
      [] s = "TEXT/XML" -> "text/xml"
      [] OTHER -> s

(* A header text is held as its comma-separated parts, each part as the    *)
(* element before its first semicolon and the key=value elements after it: *)
(* "text/xml;q=0.9, */*" is <<Part("text/xml", <<<<"q", "0.9">>>>),         *)
(* Part("*/*", <<>>)>>; the empty text is <<Part("", <<>>)>>.               *)
Part(contentType, rawParams) == [element |-> contentType, rawParams |-> rawParams]
EmptyText == <<Part("", <<>>)>>

_parseAccept(header) ==
    LET parts == SelectSeq(header, LAMBDA part : part # Part("", <<>>))
        params(part) ==
            LET raw == part.rawParams
                keys == {raw[i][1] : i \in 1..Len(raw)}
                last(k) == CHOOSE i \in 1..Len(raw) :
                              /\ raw[i][1] = k
                              /\ \A j \in 1..Len(raw) : raw[j][1] = k => j <= i
            IN  [k \in keys |-> raw[last(k)][2]]
    IN  [i \in 1..Len(parts) |-> <<parts[i].element, params(parts[i])>>]

\* The first encoder, in registration order, tagged contentType (0: none).
FirstEncoder(contentType) ==
    LET hits == {j \in 1..Len(encoders) : encoders[j].contentType = contentType}
    IN  IF hits = {} THEN 0 ELSE CHOOSE j \in hits : \A k \in hits : j <= k

_getEncoder(req) ==
    LET accept == IF req.accept = None \/ req.accept.value = EmptyText
                  THEN <<Part("*/*", <<>>)>> ELSE req.accept.value
        parsed == _parseAccept(accept)
        accepted == [i \in 1..Len(parsed) |-> lower(parsed[i][1])]
        matching == {i \in 1..Len(accepted) : FirstEncoder(accepted[i]) # 0}
    IN  IF matching # {}
        THEN LET i == CHOOSE i \in matching : \A k \in matching : i <= k
             IN  Return(encoders[FirstEncoder(accepted[i])])
        ELSE IF \E i \in 1..Len(accepted) : accepted[i] = "*/*"
        THEN Return(defaultEncoder)
        ELSE RaiseFrom("UnacceptableRequest",
                       UnacceptableRequestError(_getEncoderTypes, accepted))

\* _getDecoder taking the first decoder when there is no Content-Type
_getDecoder_lenient(req) ==
    LET contentType == req.contentType
        hits == {j \in 1..Len(decoders) :
                    contentType # None /\ decoders[j].contentType = contentType.value}
    IN  IF contentType = None
        THEN Return(decoders[1])
        ELSE IF hits # {}
        THEN Return(decoders[CHOOSE j \in hits : \A k \in hits : j <= k])
        ELSE RaiseFrom("UnsupportedContentType",
                       UnsupportedContentTypeError(_getDecoderTypes, contentType.value))

_getDecoder(req) ==
    LET contentType == req.contentType
        hits == {j \in 1..Len(decoders) :
                    contentType # None /\ decoders[j].contentType = contentType.value}
    IN  IF contentType = None
        THEN RaiseFrom("MissingContentType", MissingContentType(_getDecoderTypes))
        ELSE IF hits # {}
        THEN Return(decoders[CHOOSE j \in hits : \A k \in hits : j <= k])
        ELSE RaiseFrom("UnsupportedContentType",
                       UnsupportedContentTypeError(_getDecoderTypes, contentType.value))

----------------------------------------------------------------------------
(* The backing collection and its elements (ICollection / IElement of      *)
(* interface.py; the implementation is txyoga.base).                       *)

identifyingAttribute == "name"
exposedElementAttributes == {"name"}

\* IElement.fromState, through ICollection.createElementFromState
createElementFromState(state) == [name |-> state.name, value |-> state.value]

\* IElement.toState(attrs)
toState(element, attrs) == [a \in attrs |-> element[a]]
AllAttributes == {"name", "value"}

\* getattr(element, element.identifyingAttribute)
IdentifierOf(element) == element[identifyingAttribute]

Positions(elems, identifier) ==
    {i \in 1..Len(elems) : IdentifierOf(elems[i]) = identifier}

\* collection[identifier]: the element, or KeyError
getitem(elems, identifier) ==
    IF Positions(elems, identifier) = {}
    THEN RaiseOther("KeyError")
    ELSE Return(elems[CHOOSE i \in Positions(elems, identifier) : TRUE])

\* collection[start:stop]: the elements whose ordinal lies in [start, stop)
getslice(elems, start, stop) ==
    LET lo == IF start < 0 THEN 0 ELSE start
        hi == IF stop > Len(elems) THEN Len(elems) ELSE stop
    IN  IF hi <= lo THEN <<>> ELSE SubSeq(elems, lo + 1, hi)

Without(elems, i) ==
    [j \in 1..(Len(elems) - 1) |-> IF j < i THEN elems[j] ELSE elems[j + 1]]

\* collection.removeByIdentifier(identifier): KeyError when there is none
removeByIdentifier(elems, identifier) ==
    IF Positions(elems, identifier) = {}
    THEN RaiseOther("KeyError")
    ELSE Return(Without(elems, CHOOSE i \in Positions(elems, identifier) : TRUE))

\* collection.add(element): a unique-key container.  What it does with a key
\* it already holds is the backing implementation's choice: it either
\* refuses (an error outside the taxonomy) or stores the element under the
\* key it had.
\* add that appends whatever keys the collection holds
add_append(elems, element, onDuplicate) == Return(Append(elems, element))

add(elems, element, onDuplicate) ==
    LET at == Positions(elems, IdentifierOf(element))
    IN  IF at = {} THEN Return(Append(elems, element))
        ELSE IF onDuplicate = "refuse" THEN RaiseOther("BackingError")
        ELSE Return([i \in 1..Len(elems) |-> IF i \in at THEN element ELSE elems[i]])

\* element.update(state): the identifying attribute is immutable
update(element, state) ==
    IF state.name # element.name
    THEN Raise(AttributeValueUpdateError(identifyingAttribute, state.name, element.name))
    ELSE Return([element EXCEPT !.value = state.value])

----------------------------------------------------------------------------
(* resource.py                                                             *)

\* What a handler leaves behind: its outcome, the collection, and the
\* backing operations it invoked.
NotCalled == [called |-> FALSE]
Handled(outcome, elems, invoked) ==
    [outcome |-> outcome, elements |-> elems, calls |-> invoked, links |-> NotCalled]
Result(resp, elems, invoked) ==
    [response |-> resp, elements |-> elems, calls |-> invoked, links |-> NotCalled]

\* Created.render / Deleted.render
Created == [kind |-> "Created", status |-> CREATED, body |-> ""]
Deleted == [kind |-> "Deleted", status |-> NO_CONTENT, body |-> ""]

\* An exception no handler catches: twisted answers 500.
Fault(class) == [kind |-> "fault", status |-> 500, exception |-> class]

\* A typed error written out: status from the error, body of the shape
\* {errorMessage, errorDetails}.
ErrorPage(e) ==
    [kind |-> "error", status |-> e.responseCode, error |-> e.kind,
     body |-> Encode(defaultEncoder, _RESTResourceJSONEncoder(e))]

(* reportErrors: the decorated handler gets the encoder or decoder it asks *)
(* for, resolved before its body runs; a typed error raised by the         *)
(* resolution or by the body becomes the error page.                       *)
reportErrors(resolution, h) ==
    LET respond(o) ==
            CASE o.outcome = "return" -> o.value
              [] o.outcome = "raise" -> ErrorPage(o.error)
              [] OTHER -> Fault(o.class)
    IN  IF resolution.outcome # "return"
        THEN Result(respond(resolution), h.elements, <<>>)
        ELSE [Result(respond(h.outcome), h.elements, h.calls) EXCEPT !.links = h.links]

NoResolution == Return(None)

\* The check of lines 90-92, without it
identifierMismatch_unchecked(identifier, actualIdentifier) == FALSE

\* if identifier is not None: ... if actualIdentifier != identifier
identifierMismatch(identifier, actualIdentifier) ==
    identifier # None /\ actualIdentifier # identifier.value

_createElement(req, elems, identifier, onDuplicate) ==
    LET decoder == _getDecoder(req)
        state == Decode(decoder.value, req.content)
        element == createElementFromState(state)
        actualIdentifier == IdentifierOf(element)
        added == add(elems, element, onDuplicate)
        body ==
            IF identifierMismatch(identifier, actualIdentifier)
            THEN Handled(RaiseFrom("IdentifierError",
                                   IdentifierError(identifier.value, actualIdentifier)),
                         elems, <<"decoder", "createElementFromState">>)
            ELSE IF added.outcome # "return"
            THEN Handled(added, elems, <<"decoder", "createElementFromState", "add">>)
            ELSE Handled(Return(Created), added.value,
                         <<"decoder", "createElementFromState", "add">>)
    IN  reportErrors(decoder,
                     IF decoder.outcome = "return" THEN body
                     ELSE Handled(decoder, elems, <<>>))

_missingElement(req, elems, element) ==
    reportErrors(NoResolution,
        Handled(RaiseFrom("MissingResourceError",
                          MissingResourceError("no such element " \o element)),
                elems, <<>>))

(* Pagination                                                              *)

Digits == {"0", "1", "2", "3", "4", "5", "6", "7", "8", "9"}
DigitValue(c) ==
    CASE c = "0" -> 0 [] c = "1" -> 1 [] c = "2" -> 2 [] c = "3" -> 3
      [] c = "4" -> 4 [] c = "5" -> 5 [] c = "6" -> 6 [] c = "7" -> 7
      [] c = "8" -> 8 [] c = "9" -> 9

RECURSIVE Decimal(_)
Decimal(cs) ==
    IF cs = <<>> THEN 0
    ELSE 10 * Decimal(SubSeq(cs, 1, Len(cs) - 1)) + DigitValue(cs[Len(cs)])

\* int(text), text held as its characters: an optional sign, then digits
int(text) ==
    LET signed == text # <<>> /\ text[1] \in {"-", "+"}
        digits == IF signed THEN Tail(text) ELSE text
        wellFormed == digits # <<>> /\ \A i \in 1..Len(digits) : digits[i] \in Digits
    IN  IF ~wellFormed THEN RaiseOther("ValueError")
        ELSE IF signed /\ text[1] = "-" THEN Return(0 - Decimal(digits))
        ELSE Return(Decimal(digits))

\* _getBound taking the first value of a repeated key
_getBound_first(args, key, default) ==
    IF key \notin DOMAIN args
    THEN Return(default)
    ELSE LET values == args[key]
         IN  IF int(values[1]).outcome = "exception"
             THEN RaiseFrom("PaginationError",
                            PaginationError("key " \o key \o " not an integer"))
             ELSE int(values[1])

_getBound(args, key, default) ==
    IF key \notin DOMAIN args
    THEN Return(default)
    ELSE LET values == args[key]
         IN  IF Len(values) # 1
             THEN RaiseFrom("PaginationError",
                            PaginationError("duplicate key " \o key \o " in query"))
             ELSE IF int(values[1]).outcome = "exception"
             THEN RaiseFrom("PaginationError",
                            PaginationError("key " \o key \o " not an integer"))
             ELSE int(values[1])

_getBounds(req) ==
    LET start == _getBound(req.args, "start", 0)
        stop == _getBound(req.args, "stop", pageSize)
    IN  IF start.outcome # "return" THEN start
        ELSE IF stop.outcome # "return" THEN stop
        ELSE Return([start |-> start.value, stop |-> stop.value])

\* request.prePathURL() of the collection resource
thisURL == "http://localhost/things"

buildURL(url, start, stop) ==
    [url |-> url, query |-> <<<<"start", start>>, <<"stop", stop>>>>]

max(a, b) == IF a >= b THEN a ELSE b

\* _getPaginationURLs with the previous window not clamped at 0
_getPaginationURLs_unclamped(url, start, stop) ==
    LET size == stop - start
        prevStart == start - size
        prevStop == start
        prevURL == IF prevStart # prevStop
                   THEN buildURL(url, prevStart, prevStop) ELSE None
        nextURL == buildURL(url, stop, stop + size)
    IN  IF size < 0
        THEN RaiseFrom("PaginationError",
                       PaginationError("Requested page size is negative"))
        ELSE IF size > maxPageSize
        THEN RaiseFrom("PaginationError",
                       PaginationError("Requested page size too large"))
        ELSE Return([prev |-> prevURL, next |-> nextURL])

_getPaginationURLs(url, start, stop) ==
    LET size == stop - start
        prevStart == max(0, start - size)
        prevStop == start
        prevURL == IF prevStart # prevStop
                   THEN buildURL(url, prevStart, prevStop) ELSE None
        nextURL == buildURL(url, stop, stop + size)
    IN  IF size < 0
        THEN RaiseFrom("PaginationError",
                       PaginationError("Requested page size is negative"))
        ELSE IF size > maxPageSize
        THEN RaiseFrom("PaginationError",
                       PaginationError("Requested page size too large"))
        ELSE Return([prev |-> prevURL, next |-> nextURL])

\* The test of line 125, never true
exhausted_never(start, stop, els) == FALSE

\* if (stop - start) > len(elements): not enough elements
exhausted(start, stop, els) == (stop - start) > Len(els)

\* CollectionResource.render_GET
render_GET(req, elems) ==
    LET encoder == _getEncoder(req)
        bounds == _getBounds(req)
        start == bounds.value.start
        stop == bounds.value.stop
        urls == _getPaginationURLs(thisURL, start, stop)
        els == getslice(elems, start, stop)
        results == [i \in 1..Len(els) |-> toState(els[i], exposedElementAttributes)]
        nextURL == IF exhausted(start, stop, els) THEN None ELSE urls.value.next
        listing == [results |-> results, prev |-> urls.value.prev, next |-> nextURL]
        called == [called |-> TRUE, start |-> start, stop |-> stop, urls |-> urls]
        body ==
            IF bounds.outcome # "return" THEN Handled(bounds, elems, <<>>)
            ELSE IF urls.outcome # "return"
            THEN [Handled(urls, elems, <<>>) EXCEPT !.links = called]
            ELSE [Handled(Return([kind |-> "listing", status |-> 200,
                                  body |-> Encode(encoder.value, listing)]),
                          elems, <<"getslice">>) EXCEPT !.links = called]
    IN  reportErrors(encoder,
                     IF encoder.outcome = "return" THEN body
                     ELSE Handled(encoder, elems, <<>>))

\* CollectionResource.render_POST
render_POST(req, elems, onDuplicate) ==
    _createElement(req, elems, None, onDuplicate)

\* ElementResource.render_GET
element_render_GET(req, elems, element) ==
    LET encoder == _getEncoder(req)
    IN  reportErrors(encoder,
            IF encoder.outcome # "return" THEN Handled(encoder, elems, <<>>)
            ELSE Handled(Return([kind |-> "element", status |-> 200,
                                 body |-> Encode(encoder.value,
                                                 toState(element, AllAttributes))]),
                         elems, <<"toState">>))

\* ElementResource.render_PUT
element_render_PUT(req, elems, element) ==
    LET decoder == _getDecoder(req)
        state == Decode(decoder.value, req.content)
        updated == update(element, state)
        stored == [i \in 1..Len(elems) |->
                      IF elems[i] = element THEN updated.value ELSE elems[i]]
    IN  reportErrors(decoder,
            IF decoder.outcome # "return" THEN Handled(decoder, elems, <<>>)
            ELSE IF updated.outcome # "return"
            THEN Handled(updated, elems, <<"decoder", "update">>)
            ELSE Handled(Return([kind |-> "updated", status |-> 200, body |-> ""]),
                         stored, <<"decoder", "update">>))

\* The render of IResource(element): twisted routes the request to the
\* element resource (registerAdapter in __init__.py).  The modelled elements
\* have no children, and an element resource has render_GET and render_PUT.
ElementResource(req, elems, element) ==
    IF req.postpath # <<>>
    THEN Result([kind |-> "NoResource", status |-> NOT_FOUND, body |-> ""], elems, <<>>)
    ELSE IF req.method = "GET" THEN element_render_GET(req, elems, element)
    ELSE IF req.method = "PUT" THEN element_render_PUT(req, elems, element)
    ELSE Result([kind |-> "UnsupportedMethod", status |-> 405, body |-> ""], elems, <<>>)

After(invoked, handled) == [handled EXCEPT !.calls = invoked \o @]

\* The test of line 70 without its postpath part
isCreation_anyDepth(req) == req.method = "PUT"

\* if request.method == 'PUT' and not request.postpath
isCreation(req) == req.method = "PUT" /\ req.postpath = <<>>

\* The test of line 64 with the method name in lower case, which no request
\* carries
isDeletion_lowerCase(req) == req.method = "delete" /\ req.postpath = <<>>

\* if request.method == "DELETE" and not request.postpath
isDeletion(req) == req.method = "DELETE" /\ req.postpath = <<>>

\* CollectionResource.getChild, and the render of the resource it returns
getChild(path, req, elems, onDuplicate) ==
    LET removed == removeByIdentifier(elems, path)
        found == getitem(elems, path)
        except(invoked) ==
            IF isCreation(req)
            THEN After(invoked, _createElement(req, elems, Given(path), onDuplicate))
            ELSE After(invoked, _missingElement(req, elems, path))
    IN  IF isDeletion(req)
        THEN IF removed.outcome = "return"
             THEN Result(Deleted, removed.value, <<"removeByIdentifier">>)
             ELSE except(<<"removeByIdentifier">>)
        ELSE IF found.outcome = "return"
             THEN After(<<"getitem">>, ElementResource(req, elems, found.value))
             ELSE except(<<"getitem">>)

----------------------------------------------------------------------------
(* The requests the model sends.                                           *)

Methods == {"GET", "POST", "PUT", "DELETE"}

AcceptHeaders ==
    { None,
      Header(EmptyText),
      Header(<<Part("application/json", <<>>)>>),
      Header(<<Part("text/xml", <<>>)>>),
      Header(<<Part("text/xml", <<<<"q", "0.1">>>>),
               Part("Application/JSON", <<<<"q", "0.9">>>>)>>),
      Header(<<Part("text/xml", <<>>), Part("*/*", <<>>)>>) }

ContentTypes == {None, Header("application/json"), Header("text/xml")}

\* request.content: the JSON text of an element state
Contents == {[json |-> [name |-> n, value |-> v]] : n \in Identifiers, v \in Values}
NoContent == [json |-> None]

PostPaths == {<<>>, <<"child">>}

QueryValues == {<<"0">>, <<"2">>, <<"5">>, <<"-", "1">>, <<"x">>}
ValueLists == {<<v>> : v \in QueryValues} \cup {<<<<"0">>, <<"5">>>>}
Queries == UNION {[keys -> ValueLists] : keys \in SUBSET {"start", "stop"}}

Request(method, path, postpath, accept, contentType, content, args) ==
    [method |-> method, path |-> path, postpath |-> postpath, accept |-> accept,
     contentType |-> contentType, content |-> content, args |-> args]

NoArgs == [k \in {} |-> <<>>]

\* The listing requests: every Accept header without a query, and every
\* query under an absent Accept header and under one no encoder matches.
ListingRequests ==
    {<<accept, NoArgs>> : accept \in AcceptHeaders}
        \cup ({None, Header(<<Part("text/xml", <<>>)>>)} \X Queries)

\* What the backing collection's add may do with a key it already holds.
DuplicatePolicies == {"refuse", "replace"}

----------------------------------------------------------------------------
(* The state machine.                                                      *)

Init ==
    /\ elements = <<>>
    /\ request = [method |-> "none"]
    /\ response = [kind |-> "none", status |-> 0]
    /\ before = <<>>
    /\ calls = <<>>
    /\ links = NotCalled

\* Every action handles one request: the handler runs once, and the request,
\* the collection it found, and what the handler did are recorded.

\* GET on the collection
CollectionGET ==
    \E listing \in ListingRequests :
        LET req == Request("GET", None, <<>>, listing[1], None, NoContent, listing[2]) IN
            \E h \in {render_GET(req, elements)} :
                /\ Len(h.elements) <= MaxCount
                /\ request' = req
                /\ before' = elements
                /\ elements' = h.elements
                /\ response' = h.response
                /\ calls' = h.calls
                /\ links' = h.links

\* POST on the collection
CollectionPOST ==
    \E contentType \in ContentTypes, content \in Contents,
       onDuplicate \in DuplicatePolicies :
        LET req == Request("POST", None, <<>>, None, contentType, content, NoArgs) IN
            \E h \in {render_POST(req, elements, onDuplicate)} :
                /\ Len(h.elements) <= MaxCount
                /\ request' = req
                /\ before' = elements
                /\ elements' = h.elements
                /\ response' = h.response
                /\ calls' = h.calls
                /\ links' = h.links

\* GET /<path>[/child]
ChildGET ==
    \E path \in Identifiers, postpath \in PostPaths, accept \in AcceptHeaders :
        LET req == Request("GET", Given(path), postpath, accept, None, NoContent, NoArgs) IN
            \E h \in {getChild(path, req, elements, "refuse")} :
                /\ Len(h.elements) <= MaxCount
                /\ request' = req
                /\ before' = elements
                /\ elements' = h.elements
                /\ response' = h.response
                /\ calls' = h.calls
                /\ links' = h.links

\* PUT /<path>[/child]
ChildPUT ==
    \E path \in Identifiers, postpath \in PostPaths,
       contentType \in ContentTypes, content \in Contents,
       onDuplicate \in DuplicatePolicies :
        LET req == Request("PUT", Given(path), postpath, None, contentType, content, NoArgs) IN
            \E h \in {getChild(path, req, elements, onDuplicate)} :
                /\ Len(h.elements) <= MaxCount
                /\ request' = req
                /\ before' = elements
                /\ elements' = h.elements
                /\ response' = h.response
                /\ calls' = h.calls
                /\ links' = h.links

\* DELETE /<path>[/child]
ChildDELETE ==
    \E path \in Identifiers, postpath \in PostPaths :
        LET req == Request("DELETE", Given(path), postpath, None, None, NoContent, NoArgs) IN
            \E h \in {getChild(path, req, elements, "refuse")} :
                /\ Len(h.elements) <= MaxCount
                /\ request' = req
                /\ before' = elements
                /\ elements' = h.elements
                /\ response' = h.response
                /\ calls' = h.calls
                /\ links' = h.links

\* POST /<path>[/child]
ChildPOST ==
    \E path \in Identifiers, postpath \in PostPaths :
        LET req == Request("POST", Given(path), postpath, None, None, NoContent, NoArgs) IN
            \E h \in {getChild(path, req, elements, "refuse")} :
                /\ Len(h.elements) <= MaxCount
                /\ request' = req
                /\ before' = elements
                /\ elements' = h.elements
                /\ response' = h.response
                /\ calls' = h.calls
                /\ links' = h.links

Next ==
    \/ CollectionGET
    \/ CollectionPOST
    \/ ChildGET
    \/ ChildPUT
    \/ ChildDELETE
    \/ ChildPOST

Spec == Init /\ [][Next]_vars

----------------------------------------------------------------------------
(* Properties.                                                             *)

Absent(elems, identifier) == \A i \in 1..Len(elems) : elems[i].name # identifier
Invoked(operation) == \E i \in 1..Len(calls) : calls[i] = operation
IsTypedError(kind, status) ==
    /\ response.kind = "error"
    /\ response.error = kind
    /\ response.status = status
ErrorDetails == response.body.json.errorDetails

\* The request is a PUT at a terminal path whose identifier was not in the
\* collection, with a body a registered decoder reads.
PutCreate ==
    /\ request.method = "PUT"
    /\ request.postpath = <<>>
    /\ Absent(before, request.path.value)
    /\ request.contentType = Header("application/json")

(* C1: a PUT at a terminal path /<id> for an identifier that is not in the *)
(* collection, whose decoded body builds an element with another           *)
(* identifier, fails with the identifier-mismatch error (403) whose        *)
(* details name the expected and the actual identifier; the collection is  *)
(* as it was and add was not called.                                       *)
C1_IdentifierMismatch ==
    (PutCreate /\ request.content.json.name # request.path.value) =>
        /\ IsTypedError("IdentifierError", 403)
        /\ ErrorDetails.expectedIdentifyingAttribute
               = "'" \o request.path.value \o "'"
        /\ ErrorDetails.actualIdentifyingAttribute
               = "'" \o request.content.json.name \o "'"
        /\ elements = before
        /\ ~Invoked("add")

C1_Witness ==
    /\ PutCreate
    /\ request.content.json.name # request.path.value
    /\ response.kind = "error"
    /\ response.error = "IdentifierError"
    /\ before # <<>>

\* The request is a DELETE at a terminal path whose identifier was not in
\* the collection.
DeleteAbsent ==
    /\ request.method = "DELETE"
    /\ request.postpath = <<>>
    /\ Absent(before, request.path.value)

(* C2, as stated: a DELETE at a terminal path /<id> for an identifier that *)
(* is not in the collection fails with the missing-resource error (404),   *)
(* invokes no removal operation on the backing collection and leaves the   *)
(* collection unchanged.                                                   *)
C2_NoRemovalInvoked ==
    DeleteAbsent =>
        /\ IsTypedError("MissingResourceError", 404)
        /\ ~Invoked("removeByIdentifier")
        /\ elements = before

(* C2, amended: such a DELETE fails with the missing-resource error (404)  *)
(* and leaves the collection unchanged; the handler does invoke            *)
(* removeByIdentifier(<id>), before any lookup, and that call, which fails *)
(* on the absent identifier, is the only backing operation it invokes.     *)
C2_RemovalAttemptedNothingRemoved ==
    DeleteAbsent =>
        /\ IsTypedError("MissingResourceError", 404)
        /\ calls = <<"removeByIdentifier">>
        /\ elements = before

C2_Witness ==
    /\ DeleteAbsent
    /\ before # <<>>
    /\ response.kind = "error"
    /\ response.status = 404

\* _getPaginationURLs was called with a window it accepts.
Synthesized == links.called /\ links.urls.outcome = "return"
Width == links.stop - links.start
Window(start, stop) == <<<<"start", start>>, <<"stop", stop>>>>

(* C3, as stated: for every resolved window (start, stop) with             *)
(* 0 <= stop-start <= maxPageSize the next link is for the window          *)
(* [stop, stop + (stop-start)), and the previous link is for a window that *)
(* ends at start and is absent if and only if start = 0.                   *)
C3_PreviousAbsentIffStartZero ==
    Synthesized =>
        /\ links.urls.value.next.query = Window(links.stop, links.stop + Width)
        /\ (links.urls.value.prev = None) <=> (links.start = 0)
        /\ links.urls.value.prev # None =>
               links.urls.value.prev.query[2] = <<"stop", links.start>>

(* C3, amended: the next link is for the window [stop, stop + width); the  *)
(* previous link is for the window [max(0, start - width), start) and is   *)
(* absent if and only if max(0, start - width) = start, that is if         *)
(* start = 0, or if width = 0 and start > 0.                               *)
C3_PreviousAbsentIffWindowEmpty ==
    Synthesized =>
        /\ 0 <= Width /\ Width <= maxPageSize
        /\ links.urls.value.next.query = Window(links.stop, links.stop + Width)
        /\ (links.urls.value.prev = None)
               <=> (links.start = 0 \/ (Width = 0 /\ links.start > 0))
        /\ links.urls.value.prev # None =>
               links.urls.value.prev.query
                   = Window(IF links.start - Width > 0 THEN links.start - Width ELSE 0,
                            links.start)

C3_Witness ==
    /\ Synthesized
    /\ links.start > 0
    /\ Width > 0
    /\ links.urls.value.prev # None

\* The request is a GET on the collection whose Accept header some encoder
\* serves: it is absent or empty, or names application/json (in any case)
\* or */*.
Serves(contentType) ==
    contentType \in {"application/json", "Application/JSON", "*/*"}
Acceptable ==
    \/ request.accept = None
    \/ request.accept.value = EmptyText
    \/ \E i \in 1..Len(request.accept.value) : Serves(request.accept.value[i].element)
Listing ==
    /\ request.method = "GET"
    /\ request.path = None
    /\ Acceptable
Results == response.body.json.results

(* C4: when the collection holds fewer elements than its pageSize, a GET   *)
(* listing with neither start nor stop in the query returns every element  *)
(* of the collection, in order, in "results", and a null "next" link.      *)
C4_DefaultListingReturnsAll ==
    (Listing /\ DOMAIN request.args = {} /\ Len(elements) < pageSize) =>
        /\ response.kind = "listing"
        /\ response.status = 200
        /\ Len(Results) = Len(elements)
        /\ \A i \in 1..Len(elements) : Results[i].name = elements[i].name
        /\ response.body.json.next = None

C4_Witness ==
    /\ Listing
    /\ DOMAIN request.args = {}
    /\ elements # <<>>
    /\ Len(elements) < pageSize
    /\ response.kind = "listing"

(* C6: a create request (a POST to the collection, or a PUT at a terminal  *)
(* path whose identifier is not in the collection) that has no             *)
(* Content-Type header fails with the missing-content-type error (415),    *)
(* which carries the supported decoder types; the body is not decoded, no  *)
(* element is constructed or added, and the collection is unchanged.       *)
CreateRequest ==
    \/ request.method = "POST" /\ request.path = None
    \/ /\ request.method = "PUT"
       /\ request.postpath = <<>>
       /\ Absent(before, request.path.value)

C6_MissingContentTypeBeforeDecode ==
    (CreateRequest /\ request.contentType = None) =>
        /\ IsTypedError("MissingContentType", 415)
        /\ ErrorDetails.supportedContentTypes = <<"application/json">>
        /\ ~Invoked("decoder")
        /\ ~Invoked("createElementFromState")
        /\ ~Invoked("add")
        /\ elements = before

C6_Witness ==
    /\ CreateRequest
    /\ request.method = "PUT"
    /\ request.contentType = None
    /\ before # <<>>
    /\ response.status = 415

\* The text is an integer literal: an optional sign and at least one digit.
IsIntegerText(text) ==
    LET body == IF text # <<>> /\ text[1] \in {"-", "+"} THEN Tail(text) ELSE text
    IN  body # <<>> /\ \A i \in 1..Len(body) : body[i] \in Digits
Repeated(key) == key \in DOMAIN request.args /\ Len(request.args[key]) > 1
NotInteger(key) ==
    /\ key \in DOMAIN request.args
    /\ \E i \in 1..Len(request.args[key]) : ~IsIntegerText(request.args[key][i])
Resolved(key, default) ==
    IF key \in DOMAIN request.args THEN int(request.args[key][1]).value ELSE default
RequestedWidth == Resolved("stop", pageSize) - Resolved("start", 0)
BadQuery ==
    \/ Repeated("start") \/ Repeated("stop")
    \/ NotInteger("start") \/ NotInteger("stop")
    \/ RequestedWidth < 0
    \/ RequestedWidth > maxPageSize
\* The ordinals (from 0) of the collection that lie in [start, stop)
InWindow ==
    {k \in 0..(Len(before) - 1) :
        Resolved("start", 0) <= k /\ k < Resolved("stop", pageSize)}
FirstInWindow == IF Resolved("start", 0) < 0 THEN 0 ELSE Resolved("start", 0)

(* C7: a GET listing fails with the pagination error (400) whenever start  *)
(* or stop appears more than once in the query, or has a value that is not *)
(* an integer, or the resolved window (start defaulting to 0, stop to the  *)
(* collection's pageSize whatever start is) has a width stop-start that is *)
(* negative or greater than maxPageSize; in every other case it succeeds   *)
(* and returns the elements at the ordinals in [start, stop), in order.    *)
C7_PaginationErrorOrSlice ==
    Listing =>
        IF BadQuery
        THEN IsTypedError("PaginationError", 400) /\ elements = before
        ELSE /\ response.kind = "listing"
             /\ response.status = 200
             /\ Len(Results) = Cardinality(InWindow)
             /\ \A i \in 1..Len(Results) :
                    /\ (FirstInWindow + i - 1) \in InWindow
                    /\ Results[i].name = before[FirstInWindow + i].name

C7_Witness ==
    /\ Listing
    /\ Repeated("start")
    /\ IsTypedError("PaginationError", 400)

C7_WitnessSlice ==
    /\ Listing
    /\ ~BadQuery
    /\ Resolved("start", 0) > 0
    /\ response.kind = "listing"

\* The request went through encoder resolution: a GET on the collection or
\* on an element that is in it.
Negotiated ==
    /\ request.method = "GET"
    /\ request.postpath = <<>>
    /\ request.path # None => ~Absent(before, request.path.value)
\* The content types the Accept header lists, in header order, in lower case
AcceptedTypes ==
    IF request.accept = None \/ request.accept.value = EmptyText
    THEN <<"*/*">>
    ELSE [i \in 1..Len(request.accept.value) |->
             IF request.accept.value[i].element = "Application/JSON"
             THEN "application/json" ELSE request.accept.value[i].element]
Encoded == response.kind \in {"listing", "element"} /\ response.body.encodedBy = "jsonEncode"

(* C5: encoder resolution returns the first registered encoder whose       *)
(* content type matches, case-insensitively, an accepted type, taking the  *)
(* Accept header's types in header order whatever their q values; if none  *)
(* matches and */* is accepted (or the header is absent) it returns the    *)
(* default encoder; otherwise the request fails with the                   *)
(* unacceptable-request error (406), which carries the supported encoder   *)
(* types and the accepted types: Accept: text/xml against the JSON-only    *)
(* resource gives 406 with supported ["application/json"] and accepted     *)
(* ["text/xml"].                                                           *)
C5_EncoderOr406 ==
    (Negotiated /\ DOMAIN request.args = {}) =>
        IF \E i \in 1..Len(AcceptedTypes) : AcceptedTypes[i] \in {"application/json", "*/*"}
        THEN Encoded
        ELSE /\ IsTypedError("UnacceptableRequestError", 406)
             /\ ErrorDetails.supportedContentTypes = <<"application/json">>
             /\ ErrorDetails.acceptedContentTypes = AcceptedTypes

\* The status fixed for each kind of typed error
StatusOf(kind) ==
    CASE kind = "UnsupportedContentTypeError" -> 415
      [] kind = "MissingContentType" -> 415
      [] kind = "UnacceptableRequestError" -> 406
      [] kind = "PaginationError" -> 400
      [] kind = "MissingResourceError" -> 404
      [] kind = "AttributeValueUpdateError" -> 403
      [] kind = "IdentifierError" -> 403
      [] OTHER -> 0
\* The request ended in a failure of the resource code (not in a refusal by
\* the backing collection, nor in twisted's own 404 / 405 pages).
CoreFailure ==
    \/ response.kind = "error"
    \/ response.kind = "fault" /\ response.exception # "BackingError"

(* C8: every failure raised while a request is handled is one of the seven *)
(* typed errors and reaches the client with the status fixed for its kind  *)
(* (415, 415, 406, 400, 404, 403, 403) and a body of the shape             *)
(* {errorMessage, errorDetails}; a missing-resource failure has status 404 *)
(* and details that contain the requested identifier.                      *)
C8_EveryFailureTyped ==
    CoreFailure =>
        /\ response.kind = "error"
        /\ StatusOf(response.error) # 0
        /\ response.status = StatusOf(response.error)
        /\ DOMAIN response.body.json = {"errorMessage", "errorDetails"}
        /\ response.error = "MissingResourceError" =>
               \E k \in DOMAIN ErrorDetails : ErrorDetails[k] = request.path.value

Addressed == request.method \in Methods /\ request.path # None
TerminalPut == Addressed /\ request.method = "PUT" /\ request.postpath = <<>>
Decodes == request.contentType = Header("application/json")
Names(elems) == [i \in 1..Len(elems) |-> elems[i].name]
IsCreated == response.kind = "Created" /\ response.status = 201 /\ response.body = ""
IsUpdated == response.kind = "updated" /\ response.status = 200 /\ response.body = ""
UnknownElsewhere ==
    /\ Addressed
    /\ Absent(before, request.path.value)
    /\ request.method # "PUT" \/ request.postpath # <<>>

(* C10: a PUT at a terminal path /<id> is a creation exactly when no        *)
(* element with identifier <id> exists at the time of the request: it      *)
(* creates a new element (201) only then, and then it does whenever the    *)
(* body decodes to an element identified by <id> (the failing creations    *)
(* are those of C1 and C6); when the element exists the request is         *)
(* delegated to the element's resource, never to creation: the identifiers *)
(* of the collection stay as they were, and a body that decodes and keeps  *)
(* the identifier updates the element (200, empty body); a request with    *)
(* any other method, or with further path segments, for an unknown         *)
(* identifier fails with the missing-resource error and never creates an   *)
(* element.                                                                *)
C10_PutCreatesOrUpdates ==
    /\ (TerminalPut /\ response.kind = "Created") =>
           /\ Absent(before, request.path.value)
           /\ IsCreated
           /\ elements = Append(before, request.content.json)
           /\ elements[Len(elements)].name = request.path.value
    /\ (TerminalPut /\ Absent(before, request.path.value) /\ Decodes
          /\ request.content.json.name = request.path.value) =>
           IsCreated /\ elements = Append(before, request.content.json)
    /\ (TerminalPut /\ ~Absent(before, request.path.value)) =>
           /\ response.kind # "Created"
           /\ calls[1] = "getitem"
           /\ ~Invoked("add") /\ ~Invoked("createElementFromState")
           /\ Names(elements) = Names(before)
           /\ (Decodes /\ request.content.json.name = request.path.value) =>
                  /\ IsUpdated
                  /\ \A i \in 1..Len(elements) :
                         elements[i] = IF before[i].name = request.path.value
                                       THEN request.content.json ELSE before[i]
    /\ UnknownElsewhere =>
           /\ IsTypedError("MissingResourceError", 404)
           /\ elements = before
           /\ ~Invoked("add")

C10_Witness ==
    /\ TerminalPut
    /\ ~Absent(before, request.path.value)
    /\ IsUpdated
    /\ elements # before
    /\ Len(before) = 2

\* A DELETE at the terminal path /<id>; a request for /<id> that is a GET, a
\* DELETE or has further path segments; the elements other than <id>'s.
TerminalDelete == Addressed /\ request.method = "DELETE" /\ request.postpath = <<>>
Probes(identifier) ==
    /\ Addressed
    /\ request.path.value = identifier
    /\ request.method \in {"GET", "DELETE"} \/ request.postpath # <<>>
Others(elems, identifier) == SelectSeq(elems, LAMBDA e : e.name # identifier)
Creates(identifier) ==
    /\ IsCreated
    /\ \/ TerminalPut /\ request.path.value = identifier
       \/ /\ request.method = "POST" /\ request.path = None
          /\ request.content.json.name = identifier

\* The step's request, once served, is a terminal DELETE of an element that
\* was in the collection, and has removed it.
DeletesPresent == TerminalDelete' /\ ~Absent(elements, request'.path.value)
DeletedExactly ==
    /\ response'.kind = "Deleted"
    /\ response'.status = 204
    /\ response'.body = ""
    /\ calls' = <<"removeByIdentifier">>
    /\ Absent(elements', request'.path.value)
    /\ Len(elements') = Len(elements) - 1
    /\ elements' = Others(elements, request'.path.value)

(* C11: a DELETE at a terminal path /<id> for an identifier present in the  *)
(* collection removes exactly that element, with removeByIdentifier as the *)
(* only call on the collection (no lookup, no delegation to the element's  *)
(* resource), answers with the "deleted" response (204, empty body) and    *)
(* leaves every other element as it was, in order; and from then on, as    *)
(* long as no element with that identifier is in the collection, every     *)
(* GET, DELETE or non-terminal request addressed to /<id> fails with the   *)
(* missing-resource error (404) and changes nothing, the identifier coming *)
(* back only through a request that creates an element with it (201).      *)
C11_DeleteRemovesUntilCreated ==
    [][ /\ DeletesPresent => DeletedExactly
        /\ \A identifier \in Identifiers :
               Absent(elements, identifier) =>
                   /\ Probes(identifier)' =>
                          /\ IsTypedError("MissingResourceError", 404)'
                          /\ elements' = elements
                   /\ ~Absent(elements', identifier) => Creates(identifier)'
      ]_vars

C11_Witness ==
    /\ TerminalDelete
    /\ ~Absent(before, request.path.value)
    /\ response = Deleted
    /\ Len(before) = 2
    /\ Len(elements) = 1
    /\ elements[1].name # request.path.value

====
